---- MODULE Spec2Model ----
(***************************************************************************)
(* A model of synapse/handlers/sso.py: SsoHandler, the reconciliation of   *)
(* an external (SSO) identity with a local account.                        *)
(*                                                                         *)
(* Every coroutine of the handler is cut at its `await`s: one action is    *)
(* the completion of the awaited external operation (the store, the        *)
(* mapper, the grandfather callback, the registration handler, the auth    *)
(* handler) followed by all the code that runs up to the next `await`.     *)
(* Requests interleave only at those points, as on the Twisted reactor.    *)
(***************************************************************************)
EXTENDS Integers, Sequences, FiniteSets, TLC

(***************************************************************************)
(* Bounds of the model.                                                    *)
(***************************************************************************)
MaxRequests == 3      \* requests (logins and picker requests) in one behaviour
MaxSessions == 2      \* picker sessions created in one behaviour
MaxCollisions == 1    \* Spec: attempts after which the mapper stops colliding
ClockSlack == 0       \* clock readings explored around each boundary

(***************************************************************************)
(* Program constants.                                                      *)
(***************************************************************************)
_MAP_USERNAME_RETRIES == 1000
_MAPPING_SESSION_VALIDITY_PERIOD_MS == 15 * 60 * 1000

None == "<None>"
ServerName == "hs"

Logins == 1..MaxRequests
Pickers == 1..MaxRequests
SessionIds == 1..MaxSessions

(***************************************************************************)
(* Identifiers.  A localpart is a string; Spell gives its characters, so   *)
(* that validity and case folding are computed character by character.    *)
(***************************************************************************)
Localparts == {"bob", "amy", "ann", "Bob", "Amy"}

Spell(s) ==
    CASE s = "bob" -> <<"b", "o", "b">>
      [] s = "Bob" -> <<"B", "o", "b">>
      [] s = "amy" -> <<"a", "m", "y">>
      [] s = "Amy" -> <<"A", "m", "y">>
      [] s = "ann" -> <<"a", "n", "n">>
      [] s = "hs"  -> <<"h", "s">>
      [] s = ""    -> <<>>

mxid_localpart_allowed_characters ==
    {"_", "-", ".", "/", "=",
     "a", "b", "c", "d", "e", "f", "g", "h", "i", "j", "k", "l", "m",
     "n", "o", "p", "q", "r", "s", "t", "u", "v", "w", "x", "y", "z",
     "0", "1", "2", "3", "4", "5", "6", "7", "8", "9"}

contains_invalid_mxid_characters(localpart) ==
    \E k \in DOMAIN Spell(localpart) :
        Spell(localpart)[k] \notin mxid_localpart_allowed_characters

LowerChar(ch) ==
    CASE ch = "A" -> "a"
      [] ch = "B" -> "b"
      [] OTHER -> ch

Lower(chars) == [k \in DOMAIN chars |-> LowerChar(chars[k])]

\* UserID(localpart, server_name).to_string()
UserID(localpart) == "@" \o localpart \o ":" \o ServerName

UserIds == {UserID(lp) : lp \in Localparts \cup {""}}

LocalpartOf(user_id) == CHOOSE lp \in Localparts \cup {""} : UserID(lp) = user_id

IdChars(user_id) ==
    <<"@">> \o Spell(LocalpartOf(user_id)) \o <<":">> \o Spell(ServerName)

\* the lower-cased form of each user id, which the store compares
LowerId == [u \in UserIds |-> Lower(IdChars(u))]

(***************************************************************************)
(* Inputs.                                                                 *)
(***************************************************************************)
Providers == {"oidc", "saml"}
RemoteIds == {"abc", "xyz"}
Keys == Providers \X RemoteIds

\* the keys the Linearizer can be asked for
LinearizerKeys == Providers \cup RemoteIds

\* the arguments of a complete_sso_login_request call
LoginInputs ==
    { [auth_provider_id |-> "oidc", remote_user_id |-> "abc",
       client_redirect_url |-> "/a", extra_login_attributes |-> None],
      [auth_provider_id |-> "oidc", remote_user_id |-> "xyz",
       client_redirect_url |-> "/b", extra_login_attributes |-> "x=1"],
      [auth_provider_id |-> "saml", remote_user_id |-> "abc",
       client_redirect_url |-> "/b", extra_login_attributes |-> None] }

NoAttributes == [localpart |-> None, display_name |-> None, emails |-> <<>>]

\* the attributes a mapper can return
MapperAttributes ==
    { [localpart |-> None, display_name |-> None, emails |-> <<>>],
      [localpart |-> None, display_name |-> "Amy A", emails |-> <<"amy@x.org">>],
      [localpart |-> "", display_name |-> "Amy A", emails |-> <<>>],
      [localpart |-> "bob", display_name |-> "Bob B", emails |-> <<"bob@x.org">>],
      [localpart |-> "amy", display_name |-> "Amy A", emails |-> <<"amy@x.org">>],
      [localpart |-> "Amy", display_name |-> None, emails |-> <<>>] }

\* what one call of sso_to_matrix_id_mapper can produce
MapperOutputs ==
    { [raises |-> "none", attributes |-> a] : a \in MapperAttributes }
    \cup
    { [raises |-> e, attributes |-> NoAttributes] :
         e \in {"RedirectException", "MappingException", "Exception"} }

\* the readings of the clock (milliseconds)
Times ==
    {0} \cup (1..ClockSlack)
        \cup { _MAPPING_SESSION_VALIDITY_PERIOD_MS - 1 + k : k \in 0..(ClockSlack + 1) }

\* the SsoIdentityProvider objects: two of them claim the id "oidc"
IdentityProviders ==
    { [idp_id |-> "oidc", idp_name |-> "A"],
      [idp_id |-> "oidc", idp_name |-> "B"],
      [idp_id |-> "saml", idp_name |-> "S"],
      [idp_id |-> "cas", idp_name |-> "C"] }

NoProvider == [idp_id |-> None, idp_name |-> None]

\* the client_redirect_url of a redirect request, character by character
RedirectUrls ==
    { <<"/", "a">>,
      <<"a", "?", "b", "=", "1">>,
      <<"a", "+", "b", " ", "c">>,
      <<"x", "&", "y">> }

\* the URIs p.handle_redirect_request may return
ProviderUris(p) ==
    { <<"https://", p.idp_name, "/auth">>, <<"https://", p.idp_name, "/consent">> }

NoException == [type |-> "none", msg |-> ""]
Exc(t, m) == [type |-> t, msg |-> m]

VARIABLES
    clock,          \* self._clock.time_msec()
    accounts,       \* the user ids of the registered local accounts
    links,          \* user_external_ids: (provider, remote id) -> user id
    lockHolder,     \* self._mapping_lock: the holder of each key, 0 if free
    lockQueue,      \* self._mapping_lock: the calls queued on each key
    sessions,       \* self._username_mapping_sessions
    nextSid,        \* the next value random_string(16) yields
    login,          \* the complete_sso_login_request calls
    picker,         \* the username-picker requests
    started,        \* the number of requests made so far
    last,           \* history: the request that the last step ended, as it ended
    linkWrites,     \* history: record_user_external_id calls, per key
    createdFor,     \* history: accounts registered for each key
    sessionBirth,   \* history: the clock when each session was created
    consumed,       \* history: the sessions a submit has deleted
    identity_providers,  \* self._identity_providers: idp_id -> provider
    redirect,       \* the handle_redirect_request call under way
    lastProviderOp  \* history: the registry operation the last step ended

vars == <<clock, accounts, links, lockHolder, lockQueue, sessions, nextSid,
          login, picker, started, last, linkWrites, createdFor, sessionBirth,
          consumed, identity_providers, redirect, lastProviderOp>>

\* the provider registry, which the login and picker requests leave alone
providerVars == <<identity_providers, redirect, lastProviderOp>>

IdleLogin ==
    [pc |-> "idle",
     auth_provider_id |-> None, remote_user_id |-> None,
     client_redirect_url |-> None, extra_login_attributes |-> None,
     i |-> 0, attributes |-> NoAttributes, user_id |-> None,
     registered_user_id |-> None, raised |-> NoException,
     \* history of the call
     path |-> <<>>,       \* the steps of the flow entered so far
     mapperCalls |-> 0,   \* calls of the mapper made
     lastIndex |-> -1,    \* the index the mapper was last called with
     collisions |-> 0,    \* candidates the store reported as taken
     found |-> None,      \* what the link lookup returned
     grandfathered |-> None,   \* what grandfather_existing_users returned
     mapperRaised |-> "none",  \* what the mapper's last call raised
     session_id |-> 0,    \* the picker session the call created
     wrote |-> 0,         \* links the call wrote
     issued |-> <<>>]     \* the arguments of its complete_sso_login call

NoSession ==
    [auth_provider_id |-> None, remote_user_id |-> None,
     display_name |-> None, emails |-> <<>>,
     extra_login_attributes |-> None, client_redirect_url |-> None,
     expiry_time_ms |-> 0]

IdlePicker ==
    [pc |-> "idle", kind |-> None, localpart |-> None, session_id |-> 0,
     session |-> NoSession, user_id |-> None, registered_user_id |-> None,
     result |-> None, raised |-> NoException,
     \* history of the request
     lookupAt |-> -1, wrote |-> 0, issued |-> <<>>]

IdleRedirect ==
    [pc |-> "idle", client_redirect_url |-> <<>>, ap |-> NoProvider,
     \* history of the call
     registry |-> <<>>]   \* self._identity_providers as the call found it

\* no registry operation ended in the last step
NoProviderOp ==
    [op |-> "none", p |-> NoProvider, before |-> <<>>,
     call |-> IdleRedirect, invoked |-> <<>>, returned |-> <<>>, result |-> <<>>,
     raised |-> NoException, code |-> 0]

\* no request ended in the last step
NoneEnded == [kind |-> "none", login |-> IdleLogin, picker |-> IdlePicker]

Init ==
    /\ clock = 0
    /\ accounts = {UserID("Bob")}
    /\ links = [k \in Keys |-> None]
    /\ lockHolder = [k \in LinearizerKeys |-> 0]
    /\ lockQueue = [k \in LinearizerKeys |-> <<>>]
    /\ sessions = <<>>
    /\ nextSid = 1
    /\ login = [c \in Logins |-> IdleLogin]
    /\ picker = [r \in Pickers |-> IdlePicker]
    /\ started = 0
    /\ last = NoneEnded
    /\ linkWrites = [k \in Keys |-> 0]
    /\ createdFor = [k \in Keys |-> {}]
    /\ sessionBirth = <<>>
    /\ consumed = {}
    /\ identity_providers = <<>>
    /\ redirect = IdleRedirect
    /\ lastProviderOp = NoProviderOp

(***************************************************************************)
(* The store and the registration handler, at their interface.            *)
(***************************************************************************)
\* self._store.get_user_by_external_id
get_user_by_external_id(auth_provider_id, remote_user_id) ==
    links[<<auth_provider_id, remote_user_id>>]

\* self._store.get_users_by_id_case_insensitive
get_users_by_id_case_insensitive(user_id) ==
    {u \in accounts : LowerId[u] = LowerId[user_id]}

\* self._store.record_user_external_id
record_user_external_id(auth_provider_id, remote_user_id, user_id) ==
    /\ links' = [links EXCEPT ![<<auth_provider_id, remote_user_id>>] = user_id]
    /\ linkWrites' =
         [linkWrites EXCEPT ![<<auth_provider_id, remote_user_id>>] = @ + 1]

\* self._registration_handler.register_user: can the localpart be registered
register_user_ok(localpart) ==
    get_users_by_id_case_insensitive(UserID(localpart)) = {}

(***************************************************************************)
(* self._mapping_lock, a Linearizer: one holder per key, first come first  *)
(* served; leaving the `with` block hands the key to the first waiter.     *)
(***************************************************************************)
\* Linearizer: a key is held while a caller is inside its `with` block
Held(key) == lockHolder[key] # 0

\* one lock for all the providers
LockKey_Global(rec) == "oidc"

\* a lock keyed by the remote user instead of the provider
LockKey_RemoteUser(rec) == rec.remote_user_id

LockKey(rec) == rec.auth_provider_id

\* a lock nobody waits for
MustWait_Never(rec) == FALSE

\* `with await self._mapping_lock.queue(auth_provider_id)`: the call waits for
\* the holder of its key, if there is one
MustWait(rec) == Held(LockKey(rec))

\* the calls once call c, whose record is rec, has left the `with` block and its
\* slot holds `slot`: the first waiter, if any, is resumed holding the key
Released(c, rec, slot) ==
    LET q == lockQueue[LockKey(rec)]
        lg == [login EXCEPT ![c] = slot]
    IN  IF q = <<>> THEN lg
        ELSE [lg EXCEPT ![Head(q)].pc = "lookup",
                        ![Head(q)].path = <<"LOOKUP">>]

\* the Linearizer once the holder of `key` has left the `with` block
Unlock(key) ==
    LET q == lockQueue[key]
    IN  /\ lockHolder' = [lockHolder EXCEPT ![key] = IF q = <<>> THEN 0 ELSE Head(q)]
        /\ lockQueue' = [lockQueue EXCEPT ![key] = IF q = <<>> THEN <<>> ELSE Tail(q)]

\* the request that ended, for the history
LoginEnded(rec) == [kind |-> "login", login |-> rec, picker |-> IdlePicker]
PickerEnded(rec) == [kind |-> "picker", login |-> IdleLogin, picker |-> rec]

\* the call c goes on inside the `with` block, up to its next await
Stay(c, rec) ==
    /\ login' = [login EXCEPT ![c] = rec]
    /\ last' = NoneEnded
    /\ UNCHANGED <<lockHolder, lockQueue>>

\* a hand-off made inside the `with` block
ExitLock_Holding(c, rec) ==
    /\ login' = [login EXCEPT ![c] = [rec EXCEPT !.pc = "login"]]
    /\ last' = NoneEnded
    /\ UNCHANGED <<lockHolder, lockQueue>>

\* the call c leaves the `with` block at its end (line 367) and awaits
\* complete_sso_login
ExitLock(c, rec) ==
    /\ login' = Released(c, rec, [rec EXCEPT !.pc = "login"])
    /\ Unlock(LockKey(rec))
    /\ last' = NoneEnded

\* an exception that leaves the lock held
Raise_Holding(c, rec, exc) ==
    /\ login' = [login EXCEPT ![c] = IdleLogin]
    /\ last' = LoginEnded([rec EXCEPT !.pc = "raised", !.raised = exc])
    /\ UNCHANGED <<lockHolder, lockQueue>>

\* an exception propagates out of the `with` block and ends the call
Raise(c, rec, exc) ==
    /\ login' = Released(c, rec, IdleLogin)
    /\ Unlock(LockKey(rec))
    /\ last' = LoginEnded([rec EXCEPT !.pc = "raised", !.raised = exc])

InCriticalSection(c) ==
    login[c].pc \in {"lookup", "grandfather", "record_gf", "map", "check",
                     "register", "record"}

(***************************************************************************)
(* complete_sso_login_request                                              *)
(***************************************************************************)
\* the call is made: `with await self._mapping_lock.queue(auth_provider_id)`
Start(c) ==
    /\ login[c].pc = "idle"
    /\ \A d \in 1..(c - 1) : login[d].pc # "idle"
    /\ started < MaxRequests
    /\ started' = started + 1
    /\ \E inp \in LoginInputs :
         LET rec == [IdleLogin EXCEPT
                       !.auth_provider_id = inp.auth_provider_id,
                       !.remote_user_id = inp.remote_user_id,
                       !.client_redirect_url = inp.client_redirect_url,
                       !.extra_login_attributes = inp.extra_login_attributes]
         IN  IF MustWait(rec)
             THEN /\ login' = [login EXCEPT ![c] = [rec EXCEPT !.pc = "queued"]]
                  /\ lockQueue' = [lockQueue EXCEPT ![LockKey(rec)] = Append(@, c)]
                  /\ UNCHANGED lockHolder
             ELSE /\ login' = [login EXCEPT ![c] =
                                 [rec EXCEPT !.pc = "lookup", !.path = <<"LOOKUP">>]]
                  /\ lockHolder' = [lockHolder EXCEPT ![LockKey(rec)] = c]
                  /\ UNCHANGED lockQueue
    /\ last' = NoneEnded
    /\ UNCHANGED <<clock, accounts, links, sessions, nextSid, picker,
                   linkWrites, createdFor, sessionBirth, consumed>>
    /\ UNCHANGED providerVars

\* a lookup whose hit is ignored
Missing_Always(user_id) == TRUE

\* `not user_id` (lines 338, 347), `not`ed at line 340
Missing(user_id) == user_id = None

\* get_sso_user_by_remote_user_id returns (lines 333-338, 347)
Lookup(c) ==
    /\ login[c].pc = "lookup"
    /\ LET rec == login[c]
           user_id == get_user_by_external_id(rec.auth_provider_id,
                                              rec.remote_user_id)
           got == [rec EXCEPT !.user_id = user_id, !.found = user_id]
       IN  IF Missing(user_id)
           THEN Stay(c, [got EXCEPT !.pc = "grandfather",
                                    !.path = Append(@, "GRANDFATHER")])
           ELSE ExitLock(c, got)
    /\ UNCHANGED <<clock, accounts, links, sessions, nextSid, picker, started,
                   linkWrites, createdFor, sessionBirth, consumed>>
    /\ UNCHANGED providerVars

\* a call that ignores what the grandfather callback found
GrandfatherHit_Never(user_id) == FALSE

\* `if user_id:` (line 340)
GrandfatherHit(user_id) == ~Missing(user_id)

\* grandfather_existing_users returns (lines 339-340, 347-348)
Grandfather(c) ==
    /\ login[c].pc = "grandfather"
    /\ \E user_id \in {None} \cup accounts :
         IF GrandfatherHit(user_id)
         THEN Stay(c, [login[c] EXCEPT !.user_id = user_id, !.pc = "record_gf",
                                       !.grandfathered = user_id])
         ELSE Stay(c, [login[c] EXCEPT !.user_id = user_id, !.pc = "map", !.i = 0,
                                       !.grandfathered = user_id,
                                       !.path = Append(@, "MAP_ATTRIBUTES")])
    /\ UNCHANGED <<clock, accounts, links, sessions, nextSid, picker, started,
                   linkWrites, createdFor, sessionBirth, consumed>>
    /\ UNCHANGED providerVars

\* record_user_external_id returns for a grandfathered user (lines 342-347)
RecordGrandfathered(c) ==
    /\ login[c].pc = "record_gf"
    /\ record_user_external_id(login[c].auth_provider_id,
                               login[c].remote_user_id, login[c].user_id)
    /\ ExitLock(c, [login[c] EXCEPT !.wrote = @ + 1])
    /\ UNCHANGED <<clock, accounts, sessions, nextSid, picker, started,
                   createdFor, sessionBirth, consumed>>
    /\ UNCHANGED providerVars

(***************************************************************************)
(* _redirect_to_username_picker and _register_mapped_user, as entered from *)
(* complete_sso_login_request once _call_attribute_mapper has returned.    *)
(***************************************************************************)
\* a session that loses the extra login attributes
NewSession_NoExtra(rec, now) ==
    [auth_provider_id |-> rec.auth_provider_id,
     remote_user_id |-> rec.remote_user_id,
     display_name |-> rec.attributes.display_name,
     emails |-> rec.attributes.emails,
     extra_login_attributes |-> None,
     client_redirect_url |-> rec.client_redirect_url,
     expiry_time_ms |-> now + _MAPPING_SESSION_VALIDITY_PERIOD_MS]

\* the session _redirect_to_username_picker stores (lines 444-454)
NewSession(rec, now) ==
    [auth_provider_id |-> rec.auth_provider_id,
     remote_user_id |-> rec.remote_user_id,
     display_name |-> rec.attributes.display_name,
     emails |-> rec.attributes.emails,
     extra_login_attributes |-> rec.extra_login_attributes,
     client_redirect_url |-> rec.client_redirect_url,
     expiry_time_ms |-> now + _MAPPING_SESSION_VALIDITY_PERIOD_MS]

\* _redirect_to_username_picker (lines 444-465): never returns
RedirectToUsernamePicker(c, rec) ==
    /\ nextSid <= MaxSessions
    /\ sessions' = sessions @@ (nextSid :> NewSession(rec, clock))
    /\ sessionBirth' = sessionBirth @@ (nextSid :> clock)
    /\ nextSid' = nextSid + 1
    /\ Raise(c, [rec EXCEPT !.session_id = nextSid,
                            !.path = Append(@, "AWAIT_PICKER")],
             Exc("RedirectException", "/_synapse/client/pick_username"))

\* a check that forgets the forbidden characters
LocalpartInvalid_EmptyOnly(localpart) == localpart \in {None, ""}

\* the check at the head of _register_mapped_user (lines 504-507)
LocalpartInvalid(localpart) ==
    IF localpart \in {None, ""} THEN TRUE
    ELSE contains_invalid_mxid_characters(localpart)

\* the test of line 350
NeedsPicker(attributes) == attributes.localpart = None

\* lines 350-367, up to the await of register_user
AttributesMapped(c, rec) ==
    IF NeedsPicker(rec.attributes)
    THEN RedirectToUsernamePicker(c, rec)
    ELSE /\ LET reg == [rec EXCEPT !.path = Append(@, "REGISTER")]
            IN  IF LocalpartInvalid(rec.attributes.localpart)
                THEN Raise(c, reg, Exc("MappingException", "localpart is invalid"))
                ELSE Stay(c, [reg EXCEPT !.pc = "register"])
         /\ UNCHANGED <<sessions, nextSid, sessionBirth>>

(***************************************************************************)
(* _call_attribute_mapper                                                  *)
(***************************************************************************)
\* the test of line 397
NoLocalpart(attributes) == attributes.localpart \in {None, ""}

\* a loop that makes one attempt too many
LoopContinues_OneMore(i) == i < _MAP_USERNAME_RETRIES

\* the loop goes on after a collision at index i (line 377)
LoopContinues(i) == i + 1 < _MAP_USERNAME_RETRIES

\* a mapper always called with index 0
MapperIndex_Zero(rec) == 0

\* the index the mapper is called with (line 379)
MapperIndex(rec) == rec.i

\* `not await self._store.get_users_by_id_case_insensitive(user_id)` (line 403)
IsFree(user_infos) == user_infos = {}

\* a loop that lets the mapper's unexpected exceptions through as they are
MapperFailure_Unconverted(raises) == Exc(raises, "mapper")

\* what leaves the loop when the mapper raises (lines 380-389): a
\* RedirectException or a MappingException as the mapper raised it, anything
\* else as a new MappingException
MapperFailure(raises) ==
    IF raises \in {"RedirectException", "MappingException"}
    THEN Exc(raises, "mapper")
    ELSE Exc("MappingException",
             "Could not extract user attributes from SSO response.")

\* sso_to_matrix_id_mapper(i) returns or raises `out` (lines 378-399)
MapperReturns(c, out) ==
    /\ login[c].pc = "map"
    /\ LET rec == [login[c] EXCEPT !.mapperCalls = @ + 1,
                                   !.lastIndex = MapperIndex(login[c]),
                                   !.mapperRaised = out.raises]
       IN  CASE out.raises # "none" ->
                  /\ Raise(c, rec, MapperFailure(out.raises))
                  /\ UNCHANGED <<sessions, nextSid, sessionBirth>>
             [] OTHER ->
                  LET got == [rec EXCEPT !.attributes = out.attributes]
                  IN  IF NoLocalpart(got.attributes)
                      THEN AttributesMapped(c, got)
                      ELSE /\ Stay(c, [got EXCEPT !.pc = "check"])
                           /\ UNCHANGED <<sessions, nextSid, sessionBirth>>
    /\ UNCHANGED <<clock, accounts, links, picker, started, linkWrites, createdFor,
                   consumed>>
    /\ UNCHANGED providerVars

\* get_users_by_id_case_insensitive returns (lines 402-412)
CheckReturns(c) ==
    /\ login[c].pc = "check"
    /\ LET user_id == UserID(login[c].attributes.localpart)
           user_infos == get_users_by_id_case_insensitive(user_id)
           rec == [login[c] EXCEPT
                     !.collisions = IF user_infos = {} THEN @ ELSE @ + 1]
       IN  IF IsFree(user_infos)
           THEN AttributesMapped(c, rec)
           ELSE /\ IF LoopContinues(rec.i)
                   THEN Stay(c, [rec EXCEPT !.pc = "map", !.i = @ + 1])
                   ELSE Raise(c, rec,
                              Exc("MappingException",
                                  "Unable to generate a Matrix ID from the SSO response"))
                /\ UNCHANGED <<sessions, nextSid, sessionBirth>>
    /\ UNCHANGED <<clock, accounts, links, picker, started, linkWrites, createdFor,
                   consumed>>
    /\ UNCHANGED providerVars

\* the mapper of Spec: past MaxCollisions attempts it proposes no taken name
MayReturn(c, out) ==
    IF out.raises # "none" \/ NoLocalpart(out.attributes) \/ login[c].i < MaxCollisions
    THEN TRUE
    ELSE get_users_by_id_case_insensitive(UserID(out.attributes.localpart)) = {}

MapAttempt(c) ==
    \E out \in MapperOutputs : MayReturn(c, out) /\ MapperReturns(c, out)

\* an arbitrary mapper
MapAttemptAny(c) == \E out \in MapperOutputs : MapperReturns(c, out)

(***************************************************************************)
(* _register_mapped_user, called from complete_sso_login_request           *)
(***************************************************************************)
\* a link written from the variable of the lookup
LinkTarget_LookedUp(rec) == rec.user_id

\* the user the link is written for (lines 517-519): the one register_user
\* returned
LinkTarget(rec) == rec.registered_user_id

\* register_user returns or raises (lines 510-517)
RegisterReturns(c) ==
    /\ login[c].pc = "register"
    /\ LET rec == login[c]
           localpart == rec.attributes.localpart
           key == <<rec.auth_provider_id, rec.remote_user_id>>
       IN  IF register_user_ok(localpart)
           THEN /\ accounts' = accounts \cup {UserID(localpart)}
                /\ createdFor' = [createdFor EXCEPT ![key] = @ \cup {UserID(localpart)}]
                /\ Stay(c, [rec EXCEPT !.pc = "record",
                                       !.registered_user_id = UserID(localpart)])
           ELSE /\ Raise(c, rec, Exc("SynapseError", "M_USER_IN_USE"))
                /\ UNCHANGED <<accounts, createdFor>>
    /\ UNCHANGED <<clock, links, sessions, nextSid, picker, started, linkWrites,
                   sessionBirth, consumed>>
    /\ UNCHANGED providerVars

\* record_user_external_id returns (lines 517-520, 361, 369)
RecordRegistered(c) ==
    /\ login[c].pc = "record"
    /\ record_user_external_id(login[c].auth_provider_id,
                               login[c].remote_user_id,
                               LinkTarget(login[c]))
    /\ ExitLock(c, [login[c] EXCEPT !.wrote = @ + 1,
                                    !.user_id = login[c].registered_user_id])
    /\ UNCHANGED <<clock, accounts, sessions, nextSid, picker, started,
                   createdFor, sessionBirth, consumed>>
    /\ UNCHANGED providerVars

\* self._auth_handler.complete_sso_login returns (lines 369-371)
CompleteLogin(c) ==
    /\ login[c].pc = "login"
    /\ login' = [login EXCEPT ![c] = IdleLogin]
    /\ last' = LoginEnded([login[c] EXCEPT
                             !.pc = "done",
                             !.path = Append(@, "COMPLETE"),
                             !.issued = <<login[c].user_id,
                                          login[c].client_redirect_url,
                                          login[c].extra_login_attributes>>])
    /\ UNCHANGED <<clock, accounts, links, lockHolder, lockQueue, sessions,
                   nextSid, picker, started, linkWrites, createdFor, sessionBirth,
                   consumed>>
    /\ UNCHANGED providerVars

(***************************************************************************)
(* The username picker: check_username_availability and                    *)
(* handle_submit_username_request                                           *)
(***************************************************************************)
\* a sweep that keeps a session for one more millisecond
SessionExpired_Late(session, now) == session.expiry_time_ms < now

\* the test of line 660
SessionExpired(session, now) == session.expiry_time_ms <= now

\* _expire_old_sessions (lines 655-665): the table it leaves
_expire_old_sessions(now) ==
    LET to_expire == {sid \in DOMAIN sessions : SessionExpired(sessions[sid], now)}
    IN  [sid \in (DOMAIN sessions) \ to_expire |-> sessions[sid]]

\* the localparts a human enters
PickerLocalparts == {"amy", "ann", "Amy", ""}

\* the request r goes on, up to its next await
PickerStay(r, rec) ==
    /\ picker' = [picker EXCEPT ![r] = rec]
    /\ last' = NoneEnded

\* the request r ends
PickerEnds(r, rec) ==
    /\ picker' = [picker EXCEPT ![r] = IdlePicker]
    /\ last' = PickerEnded(rec)

PickerRaise(r, rec, exc) ==
    PickerEnds(r, [rec EXCEPT !.pc = "raised", !.raised = exc])

\* self._username_mapping_sessions.get(session_id), on the swept table
GetSession(table, session_id) ==
    IF session_id \in DOMAIN table THEN table[session_id] ELSE NoSession

\* a request that goes on without a session
SessionUnknown_Never(session) == FALSE

\* `if not session` (lines 581, 613)
SessionUnknown(session) == session = NoSession

\* an availability check that uses the session up, as a submit does
CheckSessions_Consuming(session_id, now) ==
    LET swept == _expire_old_sessions(now)
    IN  [sid \in (DOMAIN swept) \ {session_id} |-> swept[sid]]

\* the session table once check_username_availability has run its
\* synchronous part for session_id (lines 579-583)
CheckSessions(session_id, now) == _expire_old_sessions(now)

\* check_username_availability is called (lines 579-594)
CheckUsernameAvailability(r) ==
    /\ picker[r].pc = "idle"
    /\ \A q \in 1..(r - 1) : picker[q].pc # "idle"
    /\ started < MaxRequests
    /\ started' = started + 1
    /\ \E localpart \in PickerLocalparts, session_id \in SessionIds :
         LET swept == _expire_old_sessions(clock)
             rec == [IdlePicker EXCEPT !.kind = "check", !.localpart = localpart,
                                       !.session_id = session_id,
                                       !.lookupAt = clock]
         IN  /\ sessions' = CheckSessions(session_id, clock)
             /\ IF SessionUnknown(GetSession(swept, session_id))
                THEN PickerRaise(r, rec, Exc("SynapseError", "unknown session"))
                ELSE LET got == [rec EXCEPT
                                   !.session = GetSession(swept, session_id)]
                     IN  IF contains_invalid_mxid_characters(localpart)
                         THEN PickerRaise(r, got,
                                          Exc("SynapseError", "localpart is invalid"))
                         ELSE PickerStay(r, [got EXCEPT !.pc = "check_store"])
    /\ UNCHANGED <<clock, accounts, links, lockHolder, lockQueue, nextSid, login,
                   linkWrites, createdFor, sessionBirth, consumed>>
    /\ UNCHANGED providerVars

\* get_users_by_id_case_insensitive returns (lines 593-597)
AvailabilityReturns(r) ==
    /\ picker[r].pc = "check_store"
    /\ LET user_id == UserID(picker[r].localpart)
           user_infos == get_users_by_id_case_insensitive(user_id)
       IN  PickerEnds(r, [picker[r] EXCEPT
                            !.pc = "done",
                            !.result = IF user_infos = {} THEN "True" ELSE "False"])
    /\ UNCHANGED <<clock, accounts, links, lockHolder, lockQueue, sessions,
                   nextSid, login, started, linkWrites, createdFor, sessionBirth,
                   consumed>>
    /\ UNCHANGED providerVars

\* handle_submit_username_request is called (lines 611-633, 504-510)
SubmitUsername(r) ==
    /\ picker[r].pc = "idle"
    /\ \A q \in 1..(r - 1) : picker[q].pc # "idle"
    /\ started < MaxRequests
    /\ started' = started + 1
    /\ \E localpart \in PickerLocalparts, session_id \in SessionIds :
         LET swept == _expire_old_sessions(clock)
             rec == [IdlePicker EXCEPT !.kind = "submit", !.localpart = localpart,
                                       !.session_id = session_id,
                                       !.lookupAt = clock]
         IN  /\ sessions' = swept
             /\ IF SessionUnknown(GetSession(swept, session_id))
                THEN PickerRaise(r, rec, Exc("SynapseError", "unknown session"))
                ELSE LET got == [rec EXCEPT
                                   !.session = GetSession(swept, session_id)]
                     IN  IF LocalpartInvalid(localpart)
                         THEN PickerRaise(r, got,
                                  Exc("MappingException", "localpart is invalid"))
                         ELSE PickerStay(r, [got EXCEPT !.pc = "register"])
    /\ UNCHANGED <<clock, accounts, links, lockHolder, lockQueue, nextSid, login,
                   linkWrites, createdFor, sessionBirth, consumed>>
    /\ UNCHANGED providerVars

\* a submit that deletes its session when register_user fails
SubmitRegisterReturns_Deleting(r) ==
    /\ picker[r].pc = "register"
    /\ LET rec == picker[r]
           key == <<rec.session.auth_provider_id, rec.session.remote_user_id>>
       IN  IF register_user_ok(rec.localpart)
           THEN /\ accounts' = accounts \cup {UserID(rec.localpart)}
                /\ createdFor' = [createdFor EXCEPT ![key] = @ \cup {UserID(rec.localpart)}]
                /\ PickerStay(r, [rec EXCEPT !.pc = "record",
                                             !.registered_user_id = UserID(rec.localpart)])
                /\ UNCHANGED sessions
           ELSE /\ PickerRaise(r, rec, Exc("SynapseError", "M_USER_IN_USE"))
                /\ sessions' = [sid \in (DOMAIN sessions) \ {rec.session_id}
                                  |-> sessions[sid]]
                /\ UNCHANGED <<accounts, createdFor>>
    /\ UNCHANGED <<clock, links, lockHolder, lockQueue, nextSid, login,
                   started, linkWrites, sessionBirth, consumed>>
    /\ UNCHANGED providerVars

\* register_user returns or raises (lines 510-517)
SubmitRegisterReturns(r) ==
    /\ picker[r].pc = "register"
    /\ LET rec == picker[r]
           key == <<rec.session.auth_provider_id, rec.session.remote_user_id>>
       IN  IF register_user_ok(rec.localpart)
           THEN /\ accounts' = accounts \cup {UserID(rec.localpart)}
                /\ createdFor' = [createdFor EXCEPT ![key] = @ \cup {UserID(rec.localpart)}]
                /\ PickerStay(r, [rec EXCEPT !.pc = "record",
                                             !.registered_user_id = UserID(rec.localpart)])
           ELSE /\ PickerRaise(r, rec, Exc("SynapseError", "M_USER_IN_USE"))
                /\ UNCHANGED <<accounts, createdFor>>
    /\ UNCHANGED <<clock, links, lockHolder, lockQueue, sessions, nextSid, login,
                   started, linkWrites, sessionBirth, consumed>>
    /\ UNCHANGED providerVars

\* record_user_external_id returns (lines 517-520, 627-648)
SubmitRecordReturns(r) ==
    /\ picker[r].pc = "record"
    /\ LET rec == [picker[r] EXCEPT !.user_id = picker[r].registered_user_id,
                                    !.wrote = @ + 1]
       IN  /\ record_user_external_id(rec.session.auth_provider_id,
                                      rec.session.remote_user_id,
                                      LinkTarget(picker[r]))
           /\ IF rec.session_id \in DOMAIN sessions
              THEN /\ sessions' = [sid \in (DOMAIN sessions) \ {rec.session_id}
                                     |-> sessions[sid]]
                   /\ consumed' = consumed \cup {rec.session_id}
                   /\ PickerStay(r, [rec EXCEPT !.pc = "login"])
              ELSE /\ PickerRaise(r, rec, Exc("KeyError", "session_id"))
                   /\ UNCHANGED <<sessions, consumed>>
    /\ UNCHANGED <<clock, accounts, lockHolder, lockQueue, nextSid, login,
                   started, createdFor, sessionBirth>>
    /\ UNCHANGED providerVars

\* self._auth_handler.complete_sso_login returns (lines 648-653)
SubmitComplete(r) ==
    /\ picker[r].pc = "login"
    /\ PickerEnds(r, [picker[r] EXCEPT
                        !.pc = "done",
                        !.issued = <<picker[r].user_id,
                                     picker[r].session.client_redirect_url,
                                     picker[r].session.extra_login_attributes>>])
    /\ UNCHANGED <<clock, accounts, links, lockHolder, lockQueue, sessions,
                   nextSid, login, started, linkWrites, createdFor, sessionBirth,
                   consumed>>
    /\ UNCHANGED providerVars

\* time passes
Tick ==
    /\ \E t \in Times : t > clock /\ clock' = t
    /\ last' = NoneEnded
    /\ UNCHANGED <<accounts, links, lockHolder, lockQueue, sessions, nextSid,
                   login, picker, started, linkWrites, createdFor, sessionBirth,
                   consumed>>
    /\ UNCHANGED providerVars

(***************************************************************************)
(* The provider registry: register_identity_provider and                   *)
(* handle_redirect_request                                                 *)
(***************************************************************************)
mappingVars ==
    <<clock, accounts, links, lockHolder, lockQueue, sessions, nextSid, login,
      picker, started, last, linkWrites, createdFor, sessionBirth, consumed>>

\* a registry without the assertion
AlreadyRegistered_Unchecked(p_id) == FALSE

\* `p_id not in self._identity_providers`, negated (line 162)
AlreadyRegistered(p_id) == p_id \in DOMAIN identity_providers

\* register_identity_provider (lines 160-163)
register_identity_provider(p) ==
    /\ IF AlreadyRegistered(p.idp_id)
       THEN /\ lastProviderOp' =
                 [NoProviderOp EXCEPT !.op = "register", !.p = p,
                                      !.before = identity_providers,
                                      !.raised = Exc("AssertionError", "")]
            /\ UNCHANGED identity_providers
       ELSE /\ identity_providers' =
                 [id \in (DOMAIN identity_providers) \cup {p.idp_id} |->
                     IF id = p.idp_id THEN p ELSE identity_providers[id]]
            /\ lastProviderOp' =
                 [NoProviderOp EXCEPT !.op = "register", !.p = p,
                                      !.before = identity_providers]
    /\ UNCHANGED redirect
    /\ UNCHANGED mappingVars

\* urllib.parse.quote_plus, one character
quote_plus(ch) ==
    CASE ch = " " -> "+"
      [] ch = "/" -> "%2F"
      [] ch = "?" -> "%3F"
      [] ch = "=" -> "%3D"
      [] ch = "&" -> "%26"
      [] ch = "+" -> "%2B"
      [] OTHER -> ch

\* urlencode((("redirectUrl", client_redirect_url),)) (lines 217-219)
urlencode(key, value) ==
    <<key, "=">> \o [k \in DOMAIN value |-> quote_plus(value[k])]

\* a handler that goes to its first provider whatever their number
IsSole_AtLeastOne(registry) == Cardinality(DOMAIN registry) >= 1

\* `len(self._identity_providers) == 1` (line 212)
IsSole(registry) == Cardinality(DOMAIN registry) = 1

\* next(iter(self._identity_providers.values())) (line 213)
FirstProvider(registry) == registry[CHOOSE id \in DOMAIN registry : TRUE]

\* handle_redirect_request is called (lines 206-219)
handle_redirect_request(client_redirect_url) ==
    /\ redirect.pc = "idle"
    /\ LET call == [IdleRedirect EXCEPT !.client_redirect_url = client_redirect_url,
                                        !.registry = identity_providers]
           ended == [NoProviderOp EXCEPT !.op = "redirect", !.call = call]
       IN  IF DOMAIN identity_providers = {}
           THEN /\ lastProviderOp' =
                     [ended EXCEPT
                        !.raised = Exc("SynapseError",
                                       "Homeserver not configured for SSO."),
                        !.code = 400]
                /\ UNCHANGED redirect
           ELSE IF IsSole(identity_providers)
           THEN /\ redirect' = [call EXCEPT !.pc = "await_provider",
                                            !.ap = FirstProvider(identity_providers)]
                /\ lastProviderOp' = NoProviderOp
           ELSE /\ lastProviderOp' =
                     [ended EXCEPT
                        !.result = <<"/_synapse/client/pick_idp?">>
                                     \o urlencode("redirectUrl", client_redirect_url)]
                /\ UNCHANGED redirect
    /\ UNCHANGED identity_providers
    /\ UNCHANGED mappingVars

\* ap.handle_redirect_request returns (line 214)
ProviderRedirects(uri) ==
    /\ redirect.pc = "await_provider"
    /\ uri \in ProviderUris(redirect.ap)
    /\ lastProviderOp' =
         [NoProviderOp EXCEPT !.op = "redirect", !.call = redirect,
                              !.invoked = <<redirect.ap>>,
                              !.returned = uri, !.result = uri]
    /\ redirect' = IdleRedirect
    /\ UNCHANGED identity_providers
    /\ UNCHANGED mappingVars

(***************************************************************************)
(* Specifications                                                          *)
(***************************************************************************)
LoginStep(c) ==
    \/ Start(c)
    \/ Lookup(c)
    \/ Grandfather(c)
    \/ RecordGrandfathered(c)
    \/ CheckReturns(c)
    \/ RegisterReturns(c)
    \/ RecordRegistered(c)
    \/ CompleteLogin(c)

PickerStep(r) ==
    \/ CheckUsernameAvailability(r)
    \/ AvailabilityReturns(r)
    \/ SubmitUsername(r)
    \/ SubmitRegisterReturns(r)
    \/ SubmitRecordReturns(r)
    \/ SubmitComplete(r)

Next ==
    \/ \E c \in Logins : LoginStep(c) \/ MapAttempt(c)
    \/ \E r \in Pickers : PickerStep(r)
    \/ Tick

\* the login completions and the username picker
Spec == Init /\ [][Next]_vars

\* complete_sso_login_request calls alone
NextLogin == \E c \in Logins : LoginStep(c) \/ MapAttempt(c)

SpecLogin == Init /\ [][NextLogin]_vars

\* complete_sso_login_request calls made one after the other, with a mapper
\* that may collide at every attempt
NextLoop == LoginStep(1) \/ MapAttemptAny(1)

SpecLoop == Init /\ [][NextLoop]_vars

\* complete_sso_login_request calls alone, where what a call awaits (the
\* store, the grandfather callback, the mapper, register_user,
\* complete_sso_login) returns or fails: the reactor runs a call that can be
\* resumed as long as there is one
SpecLoginFair == Init /\ [][NextLogin]_vars /\ WF_vars(NextLogin)

\* the provider registry and the redirect requests
NextProviders ==
    \/ \E p \in IdentityProviders : register_identity_provider(p)
    \/ \E url \in RedirectUrls : handle_redirect_request(url)
    \/ \E p \in IdentityProviders : \E uri \in ProviderUris(p) : ProviderRedirects(uri)

SpecProviders == Init /\ [][NextProviders]_vars

(***************************************************************************)
(* Properties                                                              *)
(***************************************************************************)
KeyOf(rec) == <<rec.auth_provider_id, rec.remote_user_id>>

InFlight(c) == login[c].pc # "idle"

LoginJustEnded == last.kind = "login"
PickerJustEnded == last.kind = "picker"

PickerRedirect == Exc("RedirectException", "/_synapse/client/pick_username")
Exhausted ==
    Exc("MappingException", "Unable to generate a Matrix ID from the SSO response")
UnknownSession == Exc("SynapseError", "unknown session")

\* C1: under complete_sso_login_request calls alone, a key's link is written at
\* most once, and every call that gets to the login hand-off does so after
\* exactly one write for its key and with the user id the link holds, so all
\* calls for one key hand off the same user id.
C1_OneLinkPerIdentity ==
    /\ \A k \in Keys : linkWrites[k] <= 1
    /\ \A c \in Logins :
         login[c].pc = "login" =>
             /\ linkWrites[KeyOf(login[c])] = 1
             /\ login[c].user_id = links[KeyOf(login[c])]
    /\ (LoginJustEnded /\ last.login.pc = "done") =>
             /\ linkWrites[KeyOf(last.login)] = 1
             /\ last.login.issued[1] = links[KeyOf(last.login)]

\* a second call for a key completes on the link a first call wrote
C1_Witness ==
    /\ LoginJustEnded
    /\ last.login.pc = "done"
    /\ last.login.found # None
    /\ linkWrites[KeyOf(last.login)] = 1
    /\ started >= 2

\* C2: for every key, record_user_external_id is performed at most once and at
\* most one account is registered for it.
C2_AtMostOneAccountPerIdentity ==
    \A k \in Keys : linkWrites[k] <= 1 /\ Cardinality(createdFor[k]) <= 1

\* C3: a call inside the critical section holds the lock of its provider, so
\* no two calls for one provider are inside together, whatever they await; and
\* a queued call waits for a call of its provider that is inside.
C3_LockPerProvider ==
    /\ \A c \in Logins :
         InCriticalSection(c) => lockHolder[login[c].auth_provider_id] = c
    /\ \A c, d \in Logins :
         (c # d /\ InCriticalSection(c) /\ InCriticalSection(d))
             => login[c].auth_provider_id # login[d].auth_provider_id
    /\ \A c \in Logins :
         login[c].pc = "queued" =>
             \E d \in Logins \ {c} :
                 /\ InCriticalSection(d)
                 /\ login[d].auth_provider_id = login[c].auth_provider_id

\* a call waits while another call of its provider, for another remote user,
\* is suspended in the mapper
C3_Witness ==
    \E c, d \in Logins :
        /\ login[c].pc = "map"
        /\ login[d].pc = "queued"
        /\ login[d].auth_provider_id = login[c].auth_provider_id
        /\ login[d].remote_user_id # login[c].remote_user_id

\* C4: a session expires 15 minutes after its creation; a picker request that
\* found its session looked it up before that instant, and one that failed with
\* "unknown session" asked for a session never created, already deleted by a
\* submit, or looked up at or after that instant.
C4_ExpiryBoundary ==
    /\ \A sid \in DOMAIN sessions :
         sessions[sid].expiry_time_ms
             = sessionBirth[sid] + _MAPPING_SESSION_VALIDITY_PERIOD_MS
    /\ \A r \in Pickers :
         picker[r].pc # "idle" =>
             /\ picker[r].session_id \in DOMAIN sessionBirth
             /\ picker[r].lookupAt < sessionBirth[picker[r].session_id]
                                       + _MAPPING_SESSION_VALIDITY_PERIOD_MS
    /\ PickerJustEnded =>
         LET q == last.picker
             sid == q.session_id
         IN  IF q.raised = UnknownSession
             THEN IF sid \in DOMAIN sessionBirth /\ sid \notin consumed
                  THEN q.lookupAt >= sessionBirth[sid]
                                       + _MAPPING_SESSION_VALIDITY_PERIOD_MS
                  ELSE TRUE
             ELSE /\ sid \in DOMAIN sessionBirth
                  /\ q.lookupAt < sessionBirth[sid]
                                    + _MAPPING_SESSION_VALIDITY_PERIOD_MS

\* a session created at 0 was found at 15min - 1ms by a request still under
\* way, and is unknown to a request made at 15min
C4_Witness ==
    /\ PickerJustEnded
    /\ last.picker.raised = UnknownSession
    /\ last.picker.lookupAt = _MAPPING_SESSION_VALIDITY_PERIOD_MS
    /\ last.picker.session_id \in DOMAIN sessionBirth
    /\ last.picker.session_id \notin consumed
    /\ sessionBirth[last.picker.session_id] = 0
    /\ \E r \in Pickers :
         /\ picker[r].pc # "idle"
         /\ picker[r].session_id = last.picker.session_id
         /\ picker[r].lookupAt = _MAPPING_SESSION_VALIDITY_PERIOD_MS - 1

\* C5: the mapping loop never calls the mapper more than _MAP_USERNAME_RETRIES
\* times; it ends with "Unable to generate a Matrix ID" exactly when that many
\* candidates collided, having then called the mapper exactly that many times,
\* and it never goes on once that many have collided.
C5_BoundedRetries ==
    /\ \A c \in Logins :
         InFlight(c) =>
             /\ login[c].mapperCalls <= _MAP_USERNAME_RETRIES
             /\ login[c].collisions < _MAP_USERNAME_RETRIES
    /\ LoginJustEnded =>
         /\ last.login.mapperCalls <= _MAP_USERNAME_RETRIES
         /\ (last.login.raised = Exhausted)
               = (last.login.collisions = _MAP_USERNAME_RETRIES)
         /\ (last.login.raised = Exhausted)
               => last.login.mapperCalls = _MAP_USERNAME_RETRIES

\* a call ended after _MAP_USERNAME_RETRIES collisions
C5_Witness ==
    /\ LoginJustEnded
    /\ last.login.raised = Exhausted
    /\ last.login.mapperCalls = _MAP_USERNAME_RETRIES
    /\ last.login.collisions = _MAP_USERNAME_RETRIES

\* would a submit of this localpart for this session, made now, register it
SubmitWouldSucceed(localpart, session_id) ==
    /\ session_id \in DOMAIN _expire_old_sessions(clock)
    /\ ~LocalpartInvalid(localpart)
    /\ register_user_ok(localpart)

\* a step of check_username_availability
AvailabilityStep ==
    \/ last'.kind = "picker" /\ last'.picker.kind = "check"
    \/ \E r \in Pickers : picker[r].pc = "idle" /\ picker'[r].pc = "check_store"

\* C6: no step of check_username_availability changes the links, the accounts,
\* or whether a submit of any localpart for any session would succeed.
C6_AvailabilityCheckIsARead ==
    [][AvailabilityStep =>
          /\ links' = links
          /\ accounts' = accounts
          /\ \A lp \in PickerLocalparts, sid \in SessionIds :
               SubmitWouldSucceed(lp, sid)' = SubmitWouldSucceed(lp, sid)]_vars

\* an availability check answered "available" for a session that a submit can
\* still use
C6_Witness ==
    /\ PickerJustEnded
    /\ last.picker.kind = "check"
    /\ last.picker.result = "True"
    /\ SubmitWouldSucceed(last.picker.localpart, last.picker.session_id)

\* C7: a call whose link lookup hit goes straight to the login hand-off with
\* the user id it found: no grandfather call, no mapper call, no registration,
\* no link write, no picker session, no exception.
C7_LinkHit ==
    /\ \A c \in Logins :
         (InFlight(c) /\ login[c].found # None) =>
             /\ login[c].pc = "login"
             /\ login[c].user_id = login[c].found
             /\ login[c].path = <<"LOOKUP">>
             /\ login[c].mapperCalls = 0
             /\ login[c].registered_user_id = None
             /\ login[c].wrote = 0
             /\ login[c].session_id = 0
    /\ (LoginJustEnded /\ last.login.found # None) =>
             /\ last.login.pc = "done"
             /\ last.login.issued = <<last.login.found,
                                      last.login.client_redirect_url,
                                      last.login.extra_login_attributes>>
             /\ last.login.path = <<"LOOKUP", "COMPLETE">>
             /\ last.login.mapperCalls = 0
             /\ last.login.registered_user_id = None
             /\ last.login.wrote = 0
             /\ last.login.session_id = 0

\* a call completed on an existing link
C7_Witness ==
    /\ LoginJustEnded
    /\ last.login.pc = "done"
    /\ last.login.found # None
    /\ last.login.issued[1] = last.login.found

\* the step ends a call by the redirect to the username picker
RedirectedToPicker == last'.kind = "login" /\ last'.login.raised = PickerRedirect

\* the mapper returned attributes without a localpart to the call that ended
MapperGaveNoLocalpart(l) ==
    /\ l.mapperCalls > 0
    /\ l.raised.msg \notin {"mapper",
                            "Could not extract user attributes from SSO response."}
    /\ l.attributes.localpart = None

\* C8: a call ends by the redirect to the picker exactly when the mapper gave
\* it localpart=None (after a lookup miss and a grandfather miss); the step
\* adds exactly one session, holding the call's provider, remote user id,
\* display name, emails, extra login attributes and client redirect url, and
\* registers no account, writes no link and makes no login hand-off.
C8_PickerRedirect ==
    [][/\ (last'.kind = "login" /\ MapperGaveNoLocalpart(last'.login))
            => last'.login.raised = PickerRedirect
       /\ RedirectedToPicker =>
            LET l == last'.login
                sid == l.session_id
            IN  /\ MapperGaveNoLocalpart(l)
                /\ l.path = <<"LOOKUP", "GRANDFATHER", "MAP_ATTRIBUTES",
                              "AWAIT_PICKER">>
                /\ sid \notin DOMAIN sessions
                /\ DOMAIN sessions' = (DOMAIN sessions) \cup {sid}
                /\ \A other \in DOMAIN sessions : sessions'[other] = sessions[other]
                /\ sessions'[sid].auth_provider_id = l.auth_provider_id
                /\ sessions'[sid].remote_user_id = l.remote_user_id
                /\ sessions'[sid].display_name = l.attributes.display_name
                /\ sessions'[sid].emails = l.attributes.emails
                /\ sessions'[sid].extra_login_attributes = l.extra_login_attributes
                /\ sessions'[sid].client_redirect_url = l.client_redirect_url
                /\ accounts' = accounts
                /\ links' = links
                /\ linkWrites' = linkWrites
                /\ l.registered_user_id = None
                /\ l.wrote = 0
                /\ l.issued = <<>>]_vars

\* a call with extra login attributes was redirected to the picker, and its
\* session holds the display name and the email the mapper gave
C8_Witness ==
    /\ LoginJustEnded
    /\ last.login.raised = PickerRedirect
    /\ last.login.extra_login_attributes # None
    /\ last.login.session_id \in DOMAIN sessions
    /\ sessions[last.login.session_id].display_name = "Amy A"
    /\ sessions[last.login.session_id].emails = <<"amy@x.org">>

\* C9: a submit that found its session and registered its user ends by the
\* login hand-off for that user with the session's client redirect url and
\* extra login attributes, the link of the session's identity written and the
\* session deleted.
C9_SubmitCompletes ==
    (/\ PickerJustEnded
     /\ last.picker.kind = "submit"
     /\ last.picker.registered_user_id # None)
        => /\ last.picker.pc = "done"
           /\ last.picker.issued = <<last.picker.registered_user_id,
                                     last.picker.session.client_redirect_url,
                                     last.picker.session.extra_login_attributes>>
           /\ last.picker.wrote = 1
           /\ last.picker.session_id \notin DOMAIN sessions

\* C10: the mapper is called with the indices 0, 1, 2, ... in order; a call
\* that goes on to registration at index k made k + 1 mapper calls, of which
\* the first k candidates were taken and the last was free, and the user it
\* registers and hands to login is the one of the attributes of attempt k.
C10_FirstFreeAttempt ==
    /\ \A c \in Logins :
         LET l == login[c]
         IN  /\ l.pc = "map" =>
                  (l.lastIndex = l.i - 1 /\ l.mapperCalls = l.i /\ l.collisions = l.i)
             /\ l.pc \in {"check", "register", "record"} =>
                  (l.lastIndex = l.i /\ l.mapperCalls = l.i + 1 /\ l.collisions = l.i)
             /\ l.pc = "record" =>
                  l.registered_user_id = UserID(l.attributes.localpart)
             /\ (l.pc = "login" /\ l.registered_user_id # None) =>
                  l.user_id = UserID(l.attributes.localpart)
    /\ (LoginJustEnded /\ last.login.registered_user_id # None
                       /\ last.login.pc = "done") =>
         /\ last.login.issued[1] = UserID(last.login.attributes.localpart)
         /\ last.login.mapperCalls = last.login.i + 1
         /\ last.login.collisions = last.login.i
         /\ last.login.lastIndex = last.login.i

\* "bob" was taken at attempt 0, "amy" free at attempt 1: @amy:hs is registered
\* after exactly two attempts
C10_Witness ==
    /\ LoginJustEnded
    /\ last.login.pc = "done"
    /\ last.login.i = 1
    /\ last.login.mapperCalls = 2
    /\ last.login.collisions = 1
    /\ last.login.attributes.localpart = "amy"
    /\ last.login.issued[1] = UserID("amy")
    /\ UserID("amy") \in accounts

\* the mapper's own exceptions, which the loop lets through
MapperSentinels == {"RedirectException", "MappingException"}

\* C11: a call whose mapper raised ends at that attempt: with the mapper's own
\* exception if it was a RedirectException or a MappingException, with a new
\* MappingException otherwise; it registered no account, wrote no link and
\* made no hand-off. A call still under way has a mapper that never raised.
C11_MapperFailure ==
    /\ \A c \in Logins : login[c].mapperRaised = "none"
    /\ (LoginJustEnded /\ last.login.mapperRaised # "none") =>
         LET l == last.login
         IN  /\ l.pc = "raised"
             /\ IF l.mapperRaised \in MapperSentinels
                THEN l.raised = Exc(l.mapperRaised, "mapper")
                ELSE /\ l.raised.type = "MappingException"
                     /\ l.raised.msg # "mapper"
             /\ l.mapperCalls = l.i + 1
             /\ l.lastIndex = l.i
             /\ l.path = <<"LOOKUP", "GRANDFATHER", "MAP_ATTRIBUTES">>
             /\ l.registered_user_id = None
             /\ l.wrote = 0
             /\ l.session_id = 0
             /\ l.issued = <<>>

\* the mapper raised an unexpected exception at its second attempt, and the
\* call ended with a MappingException
C11_Witness ==
    /\ LoginJustEnded
    /\ last.login.mapperRaised = "Exception"
    /\ last.login.raised.type = "MappingException"
    /\ last.login.i = 1
    /\ last.login.mapperCalls = 2

\* a localpart that is absent, empty or has a forbidden character
UnusableLocalpart(localpart) ==
    IF localpart = None THEN TRUE
    ELSE IF localpart = "" THEN TRUE
    ELSE \E k \in DOMAIN Spell(localpart) :
             Spell(localpart)[k] \notin mxid_localpart_allowed_characters

\* _register_mapped_user was entered by the call
EnteredRegister(l) == \E k \in DOMAIN l.path : l.path[k] = "REGISTER"

InvalidLocalpart == Exc("MappingException", "localpart is invalid")

\* C12: _register_mapped_user, entered with an absent, empty or forbidden
\* localpart from complete_sso_login_request or from a submit, raises
\* "localpart is invalid" with no account registered and no link written; no
\* request awaits register_user or the link write with such a localpart, and
\* no account is ever registered under one.
C12_InvalidLocalpartRejected ==
    /\ \A c \in Logins :
         login[c].pc \in {"register", "record"}
             => ~UnusableLocalpart(login[c].attributes.localpart)
    /\ \A r \in Pickers :
         picker[r].pc \in {"register", "record", "login"}
             => ~UnusableLocalpart(picker[r].localpart)
    /\ \A k \in Keys : \A u \in createdFor[k] : ~UnusableLocalpart(LocalpartOf(u))
    /\ (/\ LoginJustEnded
        /\ EnteredRegister(last.login)
        /\ UnusableLocalpart(last.login.attributes.localpart))
          => /\ last.login.raised = InvalidLocalpart
             /\ last.login.registered_user_id = None
             /\ last.login.wrote = 0
             /\ last.login.issued = <<>>
    /\ (/\ PickerJustEnded
        /\ last.picker.kind = "submit"
        /\ last.picker.session # NoSession
        /\ UnusableLocalpart(last.picker.localpart))
          => /\ last.picker.raised = InvalidLocalpart
             /\ last.picker.registered_user_id = None
             /\ last.picker.wrote = 0
             /\ last.picker.issued = <<>>

\* a submit of "Amy", a localpart with a forbidden character, for a session
\* that exists ended with "localpart is invalid"
C12_Witness ==
    /\ PickerJustEnded
    /\ last.picker.kind = "submit"
    /\ last.picker.localpart = "Amy"
    /\ last.picker.session # NoSession
    /\ last.picker.raised = InvalidLocalpart
    /\ UserID("Amy") \notin accounts

\* the session is in the table and has not expired
SessionKnown(session_id) ==
    IF session_id \in DOMAIN sessions
    THEN sessions[session_id].expiry_time_ms > clock
    ELSE FALSE

\* the step ends a picker request with "unknown session"
UnknownSessionStep ==
    last'.kind = "picker" /\ last'.picker.raised = UnknownSession

\* C13: a picker request for a session that is not in the table, or has
\* expired, ends within its first step with "unknown session", and only such a
\* request does: it never awaited the store, and the step changes no account
\* and no link; a request that goes on to the store or to registration found
\* its session.
C13_UnknownSession ==
    [][/\ UnknownSessionStep =>
            /\ started' = started + 1
            /\ picker' = picker
            /\ ~SessionKnown(last'.picker.session_id)
            /\ last'.picker.session = NoSession
            /\ last'.picker.user_id = None
            /\ last'.picker.registered_user_id = None
            /\ last'.picker.result = None
            /\ last'.picker.wrote = 0
            /\ accounts' = accounts
            /\ links' = links
            /\ linkWrites' = linkWrites
            /\ createdFor' = createdFor
       /\ (last'.kind = "picker" /\ started' = started + 1
                                 /\ ~SessionKnown(last'.picker.session_id))
            => last'.picker.raised = UnknownSession
       /\ \A r \in Pickers :
            (picker[r].pc = "idle" /\ picker'[r].pc # "idle")
                => SessionKnown(picker'[r].session_id)]_vars

\* a submit used session 1 up, and a later request for it is told "unknown
\* session"
C13_Witness ==
    /\ PickerJustEnded
    /\ last.picker.raised = UnknownSession
    /\ last.picker.session_id \in consumed
    /\ last.picker.lookupAt < sessionBirth[last.picker.session_id]
                                 + _MAPPING_SESSION_VALIDITY_PERIOD_MS

\* C14: a lock is held only by a call of its own provider, and a call waits
\* only in the queue of its own provider and only while a call of that
\* provider is inside: a call of another provider is never what it waits for.
C14_ProvidersIndependent ==
    /\ \A key \in LinearizerKeys :
         /\ key \notin Providers => (lockHolder[key] = 0 /\ lockQueue[key] = <<>>)
         /\ lockHolder[key] # 0 =>
              /\ login[lockHolder[key]].auth_provider_id = key
              /\ login[lockHolder[key]].pc # "queued"
         /\ \A k \in DOMAIN lockQueue[key] :
              /\ login[lockQueue[key][k]].auth_provider_id = key
              /\ login[lockQueue[key][k]].pc = "queued"
    /\ \A c \in Logins :
         login[c].pc = "queued" =>
             /\ lockHolder[login[c].auth_provider_id] \notin {0, c}
             /\ \E k \in DOMAIN lockQueue[login[c].auth_provider_id] :
                    lockQueue[login[c].auth_provider_id][k] = c

\* of two calls in all, the first, for "oidc", is still suspended in its first
\* mapper call, and the second, for "saml", has registered its user and
\* completed
C14_Witness ==
    /\ started = 2
    /\ login[1].pc = "map"
    /\ login[1].auth_provider_id = "oidc"
    /\ login[1].mapperCalls = 0
    /\ lockHolder["oidc"] = 1
    /\ LoginJustEnded
    /\ last.login.pc = "done"
    /\ last.login.auth_provider_id = "saml"
    /\ last.login.registered_user_id # None

\* the user ids the call got inside the critical section
ObtainedInside(l) == {l.found, l.grandfathered, l.registered_user_id} \ {None}

\* C15: a call that awaits complete_sso_login holds no lock and waits for
\* none, and the user id it hands over is the one it got from the lookup, the
\* grandfather callback or the registration; the holder of a lock is never at
\* the hand-off.
C15_HandOffOutsideLock ==
    /\ \A c \in Logins :
         login[c].pc = "login" =>
             /\ \A key \in LinearizerKeys :
                  /\ lockHolder[key] # c
                  /\ \A k \in DOMAIN lockQueue[key] : lockQueue[key][k] # c
             /\ login[c].user_id \in ObtainedInside(login[c])
    /\ \A key \in LinearizerKeys :
         lockHolder[key] # 0 => InCriticalSection(lockHolder[key])
    /\ (LoginJustEnded /\ last.login.pc = "done") =>
             /\ last.login.issued[1] = last.login.user_id
             /\ last.login.user_id \in ObtainedInside(last.login)

\* a call awaits the hand-off for the user it registered while the next call
\* of its provider is already inside the critical section
C15_Witness ==
    \E c, d \in Logins :
        /\ login[c].pc = "login"
        /\ login[c].registered_user_id # None
        /\ login[d].auth_provider_id = login[c].auth_provider_id
        /\ InCriticalSection(d)
        /\ lockHolder[login[c].auth_provider_id] = d

\* urllib.parse.unquote_plus, one token of a query string
unquote_plus(tok) ==
    CASE tok = "+" -> " "
      [] tok = "%2F" -> "/"
      [] tok = "%3F" -> "?"
      [] tok = "%3D" -> "="
      [] tok = "%26" -> "&"
      [] tok = "%2B" -> "+"
      [] OTHER -> tok

\* the characters that would end or split a query parameter
QueryDelimiters == {"&", "=", "?", "#", " ", "/"}

NotConfigured == Exc("SynapseError", "Homeserver not configured for SSO.")

\* C16: a redirect request made with no provider registered fails with 400
\* "Homeserver not configured for SSO." and invokes no provider; made with one
\* provider it invokes that provider alone and returns what it returned; made
\* with more it invokes none and returns /_synapse/client/pick_idp? with the
\* single parameter redirectUrl, whose value decodes to client_redirect_url.
C16_BeginLogin ==
    /\ redirect.pc = "await_provider" =>
         /\ Cardinality(DOMAIN redirect.registry) = 1
         /\ \A id \in DOMAIN redirect.registry : redirect.registry[id] = redirect.ap
    /\ lastProviderOp.op = "redirect" =>
         LET o == lastProviderOp
             registry == o.call.registry
             n == Cardinality(DOMAIN registry)
             url == o.call.client_redirect_url
             value == SubSeq(o.result, 4, Len(o.result))
         IN  /\ n = 0 =>
                  /\ o.raised = NotConfigured
                  /\ o.code = 400
                  /\ o.invoked = <<>>
                  /\ o.result = <<>>
             /\ n = 1 =>
                  /\ o.raised = NoException
                  /\ Len(o.invoked) = 1
                  /\ \A id \in DOMAIN registry : registry[id] = o.invoked[1]
                  /\ o.returned \in ProviderUris(o.invoked[1])
                  /\ o.result = o.returned
             /\ n > 1 =>
                  /\ o.raised = NoException
                  /\ o.invoked = <<>>
                  /\ Len(o.result) = 3 + Len(url)
                  /\ SubSeq(o.result, 1, 3)
                        = <<"/_synapse/client/pick_idp?", "redirectUrl", "=">>
                  /\ \A k \in DOMAIN value : value[k] \notin QueryDelimiters
                  /\ [k \in DOMAIN value |-> unquote_plus(value[k])] = url

\* with two providers registered, a request for "x&y" is sent to the provider
\* picker with redirectUrl=x%26y
C16_Witness ==
    /\ lastProviderOp.op = "redirect"
    /\ Cardinality(DOMAIN lastProviderOp.call.registry) = 2
    /\ lastProviderOp.call.client_redirect_url = <<"x", "&", "y">>
    /\ lastProviderOp.result
          = <<"/_synapse/client/pick_idp?", "redirectUrl", "=", "x", "%26", "y">>

\* C17: no step changes or removes a registered provider; a registration
\* under an id already registered raises AssertionError and leaves the
\* registry as it was, and any other adds that provider alone.
C17_DuplicateProviderRejected ==
    [][/\ \A id \in DOMAIN identity_providers :
            /\ id \in DOMAIN identity_providers'
            /\ identity_providers'[id] = identity_providers[id]
       /\ lastProviderOp'.op = "register" =>
            LET p == lastProviderOp'.p
            IN  IF p.idp_id \in DOMAIN identity_providers
                THEN /\ lastProviderOp'.raised.type = "AssertionError"
                     /\ identity_providers' = identity_providers
                ELSE /\ lastProviderOp'.raised = NoException
                     /\ DOMAIN identity_providers'
                           = (DOMAIN identity_providers) \cup {p.idp_id}
                     /\ identity_providers'[p.idp_id] = p]_vars

\* provider B was refused the id "oidc", which provider A holds
C17_Witness ==
    /\ lastProviderOp.op = "register"
    /\ lastProviderOp.raised.type = "AssertionError"
    /\ lastProviderOp.p = [idp_id |-> "oidc", idp_name |-> "B"]
    /\ "oidc" \in DOMAIN identity_providers
    /\ identity_providers["oidc"] = [idp_id |-> "oidc", idp_name |-> "A"]

\* the mapping loop returned because the mapper gave no localpart, absent or
\* empty
LoopStoppedUnresolved(l) ==
    /\ l.mapperCalls > 0
    /\ l.mapperRaised = "none"
    /\ l.attributes.localpart \in {None, ""}

\* C18: a call whose mapping loop stopped on an absent or empty localpart ends
\* by the redirect to the picker, with a session created and
\* _register_mapped_user never entered.
C18_UnresolvedGoesToPicker ==
    (LoginJustEnded /\ LoopStoppedUnresolved(last.login)) =>
        /\ last.login.raised = PickerRedirect
        /\ last.login.session_id \in DOMAIN sessionBirth
        /\ ~EnteredRegister(last.login)

\* the step in which call c learns that the link of its grandfathered user is
\* written
GrandfatherRecorded(c) == login[c].pc = "record_gf" /\ login'[c].pc # "record_gf"

\* C19: a call whose grandfather callback returned a user writes the link of
\* its key to that user while it holds the lock, then leaves the lock and
\* hands that user to login, with no mapper call and no registration; a link
\* once written stays, and a lookup that finds it goes to the hand-off without
\* the grandfather callback.
C19_Grandfathering ==
    [][/\ \A c \in Logins :
            /\ GrandfatherRecorded(c) =>
                 /\ login[c].grandfathered # None
                 /\ login[c].found = None
                 /\ lockHolder[login[c].auth_provider_id] = c
                 /\ links'[KeyOf(login[c])] = login[c].grandfathered
                 /\ linkWrites'[KeyOf(login[c])] = linkWrites[KeyOf(login[c])] + 1
                 /\ login'[c].pc = "login"
                 /\ login'[c].user_id = login[c].grandfathered
                 /\ login'[c].mapperCalls = 0
                 /\ login'[c].registered_user_id = None
                 /\ accounts' = accounts
            /\ (login[c].pc = "lookup" /\ login'[c].pc # "lookup"
                                      /\ links[KeyOf(login[c])] # None) =>
                 /\ login'[c].pc = "login"
                 /\ login'[c].user_id = links[KeyOf(login[c])]
                 /\ login'[c].path = <<"LOOKUP">>
                 /\ login'[c].grandfathered = None
       /\ \A key \in Keys : links[key] # None => links'[key] # None
       /\ (last'.kind = "login" /\ last'.login.grandfathered # None) =>
            /\ last'.login.pc = "done"
            /\ last'.login.issued[1] = last'.login.grandfathered
            /\ last'.login.path = <<"LOOKUP", "GRANDFATHER", "COMPLETE">>
            /\ last'.login.mapperCalls = 0
            /\ last'.login.registered_user_id = None
            /\ last'.login.wrote = 1]_vars

\* a second call for a key completed for @Bob:hs on the link that the
\* grandfathering of a first call wrote: no account was ever registered
C19_Witness ==
    /\ LoginJustEnded
    /\ last.login.pc = "done"
    /\ last.login.found = UserID("Bob")
    /\ last.login.grandfathered = None
    /\ last.login.issued[1] = UserID("Bob")
    /\ linkWrites[KeyOf(last.login)] = 1
    /\ accounts = {UserID("Bob")}

\* the transitions of the flow
FlowTransitions ==
    { <<"LOOKUP", "COMPLETE">>, <<"LOOKUP", "GRANDFATHER">>,
      <<"GRANDFATHER", "COMPLETE">>, <<"GRANDFATHER", "MAP_ATTRIBUTES">>,
      <<"MAP_ATTRIBUTES", "REGISTER">>, <<"MAP_ATTRIBUTES", "AWAIT_PICKER">>,
      <<"REGISTER", "COMPLETE">> }

Visited(l, step) == \E k \in DOMAIN l.path : l.path[k] = step

\* the path of a call is made of the transitions of the flow, each taken on
\* its condition
FollowsFlow(l) ==
    /\ l.path # <<>> => l.path[1] = "LOOKUP"
    /\ \A k \in 1..(Len(l.path) - 1) : <<l.path[k], l.path[k + 1]>> \in FlowTransitions
    /\ Visited(l, "GRANDFATHER") => l.found = None
    /\ Visited(l, "MAP_ATTRIBUTES") => (l.found = None /\ l.grandfathered = None)
    /\ l.mapperCalls > 0 => Visited(l, "MAP_ATTRIBUTES")
    /\ Visited(l, "REGISTER") =>
         /\ l.mapperCalls > 0
         /\ l.attributes.localpart \notin {None, ""}
    /\ l.registered_user_id # None => Visited(l, "REGISTER")
    /\ Visited(l, "AWAIT_PICKER") =>
         /\ l.mapperCalls > 0
         /\ l.attributes.localpart \in {None, ""}
         /\ ~Visited(l, "COMPLETE")
    /\ Visited(l, "COMPLETE") =>
         \/ l.found # None
         \/ l.grandfathered # None
         \/ l.registered_user_id # None

\* C20: every call, under way or ended, has followed only the transitions of
\* the flow from LOOKUP: GRANDFATHER after a lookup miss, MAP_ATTRIBUTES after
\* a grandfather miss, REGISTER after the mapper resolved a localpart,
\* AWAIT_PICKER after it did not, and never COMPLETE after AWAIT_PICKER.
C20_FlowTransitions ==
    /\ \A c \in Logins : FollowsFlow(login[c])
    /\ LoginJustEnded => FollowsFlow(last.login)

InUse == Exc("SynapseError", "M_USER_IN_USE")

\* the key whose link the picker request writes
SessionKey(rec) == <<rec.session.auth_provider_id, rec.session.remote_user_id>>

\* the step is the link write of a registration by call c
RegistrationRecordedBy(c) == login[c].pc = "record" /\ login'[c].pc # "record"

\* the step is the link write of a registration by submit r
SubmitRecordedBy(r) == picker[r].pc = "record" /\ picker'[r] # picker[r]

\* C21: a link is written either for a grandfathered user or by a request
\* whose register_user call has returned, and then for exactly the user id it
\* returned, an account that exists; a request whose register_user call found
\* the identifier taken ends with the SynapseError M_USER_IN_USE, not a
\* MappingException, and has written no link.
C21_LinkAfterRegistration ==
    [][/\ \A key \in Keys :
            linkWrites'[key] # linkWrites[key] =>
                /\ linkWrites'[key] = linkWrites[key] + 1
                /\ links'[key] \in accounts
                /\ \/ \E c \in Logins :
                          /\ GrandfatherRecorded(c)
                          /\ KeyOf(login[c]) = key
                   \/ \E c \in Logins :
                          /\ RegistrationRecordedBy(c)
                          /\ KeyOf(login[c]) = key
                          /\ login[c].registered_user_id # None
                          /\ links'[key] = login[c].registered_user_id
                          /\ links'[key] \in createdFor[key]
                   \/ \E r \in Pickers :
                          /\ SubmitRecordedBy(r)
                          /\ SessionKey(picker[r]) = key
                          /\ picker[r].registered_user_id # None
                          /\ links'[key] = picker[r].registered_user_id
                          /\ links'[key] \in createdFor[key]
       /\ \A key \in Keys : linkWrites'[key] = linkWrites[key] => links'[key] = links[key]
       /\ (/\ last'.kind = "login"
           /\ EnteredRegister(last'.login)
           /\ ~UnusableLocalpart(last'.login.attributes.localpart)
           /\ last'.login.registered_user_id = None) =>
                /\ last'.login.raised = InUse
                /\ last'.login.wrote = 0
                /\ UserID(last'.login.attributes.localpart) \in accounts
                /\ linkWrites' = linkWrites
       /\ (/\ last'.kind = "picker"
           /\ last'.picker.kind = "submit"
           /\ last'.picker.session # NoSession
           /\ ~UnusableLocalpart(last'.picker.localpart)
           /\ last'.picker.registered_user_id = None) =>
                /\ last'.picker.raised = InUse
                /\ last'.picker.wrote = 0
                /\ linkWrites' = linkWrites]_vars

\* the mapping loop of a call found "amy" free, a submit then registered
\* @amy:hs, and the call's register_user failed with M_USER_IN_USE
C21_Witness ==
    /\ LoginJustEnded
    /\ last.login.raised = InUse
    /\ last.login.attributes.localpart = "amy"
    /\ last.login.collisions = 0
    /\ last.login.wrote = 0
    /\ UserID("amy") \in accounts
    /\ links[KeyOf(last.login)] = None

\* the call c leaves the critical section in this step
LeavesCriticalSection(c) == InCriticalSection(c) /\ ~InCriticalSection(c)'

\* C22: whenever a call leaves the critical section, by its end or by an
\* exception, the lock of its provider passes to the first call queued for it,
\* which starts its lookup, or is free if none is queued; and a queued call
\* eventually starts its lookup.
C22_LockAlwaysReleased ==
    /\ [][\A c \in Logins :
            LeavesCriticalSection(c) =>
                LET key == login[c].auth_provider_id
                IN  /\ lockHolder[key] = c
                    /\ lockHolder'[key] # c
                    /\ IF lockQueue[key] = <<>>
                       THEN lockHolder'[key] = 0
                       ELSE /\ lockHolder'[key] = Head(lockQueue[key])
                            /\ lockQueue'[key] = Tail(lockQueue[key])
                            /\ login'[Head(lockQueue[key])].pc = "lookup"]_vars
    /\ \A c \in Logins : (login[c].pc = "queued") ~> (login[c].pc = "lookup")

\* the holder was redirected to the username picker and the call that was
\* queued behind it has the lock and starts its lookup
C22_Witness ==
    /\ LoginJustEnded
    /\ last.login.raised = PickerRedirect
    /\ started = 2
    /\ \E d \in Logins :
         /\ login[d].pc = "lookup"
         /\ login[d].auth_provider_id = last.login.auth_provider_id
         /\ lockHolder[login[d].auth_provider_id] = d

\* C23: of the submits in flight that carry one session id, at most one has
\* had an account registered by register_user.
C23_OneRegistrationPerSession ==
    \A r, q \in Pickers :
        (/\ r # q
         /\ picker[r].kind = "submit"
         /\ picker[q].kind = "submit"
         /\ picker[r].session_id = picker[q].session_id
         /\ picker[r].registered_user_id # None)
            => picker[q].registered_user_id = None

\* the step ends a submit whose registration failed
SubmitFails ==
    /\ last'.kind = "picker"
    /\ last'.picker.kind = "submit"
    /\ last'.picker.raised \in {InvalidLocalpart, InUse}

\* the step starts a submit, which ends in it
SubmitRejectedAtStart ==
    /\ started' = started + 1
    /\ last'.kind = "picker"
    /\ last'.picker.kind = "submit"

\* C24: a step that ends a submit with "localpart is invalid" or with the
\* identifier in use changes the session table by the expiry sweep at most and
\* keeps the submit's session if it is unexpired, creates no account, writes no
\* link, hands nothing to the login hand-off, and leaves a submit of any
\* localpart for that session succeeding if it did before; and a submit that
\* would succeed is not rejected: it awaits register_user, and goes on to the
\* link write if the localpart is still free when register_user returns.
C24_FailedSubmitKeepsSession ==
    [][/\ SubmitFails =>
            \A sid \in {id \in SessionIds : id = last'.picker.session_id} :
                /\ sessions' \in {sessions, _expire_old_sessions(clock)}
                /\ (sid \in DOMAIN _expire_old_sessions(clock)) =>
                      (sid \in DOMAIN sessions' /\ sessions'[sid] = sessions[sid])
                /\ consumed' = consumed
                /\ accounts' = accounts
                /\ links' = links
                /\ linkWrites' = linkWrites
                /\ last'.picker.issued = <<>>
                /\ last'.picker.registered_user_id = None
                /\ \A lp \in PickerLocalparts :
                      SubmitWouldSucceed(lp, sid) => SubmitWouldSucceed(lp, sid)'
       /\ SubmitRejectedAtStart =>
            ~SubmitWouldSucceed(last'.picker.localpart, last'.picker.session_id)
       /\ \A r \in Pickers :
            (/\ picker[r].kind = "submit"
             /\ picker[r].pc = "register"
             /\ picker'[r] # picker[r]
             /\ register_user_ok(picker[r].localpart))
                => (picker'[r].pc = "record" /\ picker'[r].session = picker[r].session)
      ]_vars

\* a submit has just failed with the identifier in use; its session is still
\* in the table and a submit of a free localpart for it would succeed
C24_Witness ==
    /\ PickerJustEnded
    /\ last.picker.kind = "submit"
    /\ last.picker.raised = InUse
    /\ last.picker.session_id \in DOMAIN sessions
    /\ sessions[last.picker.session_id] = last.picker.session
    /\ SubmitWouldSucceed("ann", last.picker.session_id)

====
